---- MODULE Spec2Model ----
(***************************************************************************)
(* Model of the GlassFlow ClickHouse-ETL demo scripts:                     *)
(*   demos/utils.py                      (pipeline / table / topic helpers)*)
(*   demos/demo_deduplication.py         (variant "dedup")                 *)
(*   demos/getting-started/demo_deduplication.py  (variant "gs_dedup")     *)
(*   demos/demo_join.py                  (variant "join")                  *)
(* One run of a demo script is a sequential process; pc is its position.   *)
(* The GlassFlow service, the ClickHouse sink table and the Kafka broker   *)
(* are external state the script reads and changes through SDK calls.      *)
(***************************************************************************)
EXTENDS Integers, Sequences, FiniteSets, TLC

\* ------------------------------------------------------------------ bounds
\* largest row count of the sink table before the run
MaxRows == 1
\* largest number of events the generator reports / rows the sink flushes
MaxGen == 2

\* most topics in config.source.topics when the generator call is checked alone
MaxTopics == 2

\* ------------------------------------------------------- program constants
\* time.sleep(10) after pipeline.create()
PipelineStartWait == 10
\* time.sleep(time_window_seconds + 2)
FlushSlack == 2

\* ------------------------------------------------------------- value sets
None == "None"
\* config.pipeline_id of the loaded configuration
ConfigId == "cfg-pipeline"
\* a pipeline somebody else left running before the script started
OtherId == "other-pipeline"
\* a pipeline another client of the service starts while the script runs
RacerId == "racer-pipeline"
InitialRunning == {None, ConfigId, OtherId}
Variants == {"dedup", "gs_dedup", "join"}

\* topics named by config.source.topics (one for deduplication, two for join)
ConfigTopics(v) == IF v = "join" THEN {"left", "right"} ELSE {"events"}
InitialTopics(v) == {{}, ConfigTopics(v)}

\* sink.max_delay_time values read from the configuration file
TimeWindows ==
    { <<>>, <<"5", "s">>, <<"1", "m">>, <<"1", "h">>, <<"1", "d">>,
      <<"1", "2", "s">>, <<"s">>, <<"3">>, <<"1", "w">> }

\* what the user may type at the confirmation prompt
Answers ==
    { <<>>, <<"y">>, <<"Y">>, <<" ", "Y", "e", "s", " ">>, <<"n">>,
      <<"N", "O">>, <<" ">>, <<"y", "e", "p">> }

\* ------------------------------------------------------- string helpers
DigitChars == <<"0", "1", "2", "3", "4", "5", "6", "7", "8", "9">>
IsDigit(c) == \E i \in 1..Len(DigitChars) : DigitChars[i] = c
DigitValue(c) == (CHOOSE i \in 1..Len(DigitChars) : DigitChars[i] = c) - 1

\* int(match.group(1))
RECURSIVE ParseInt(_)
ParseInt(s) ==
    IF Len(s) = 0 THEN 0
    ELSE ParseInt(SubSeq(s, 1, Len(s) - 1)) * 10 + DigitValue(s[Len(s)])

\* str.strip(): drop leading and trailing whitespace
RECURSIVE Strip(_)
Strip(s) ==
    IF Len(s) = 0 THEN s
    ELSE IF s[1] = " " THEN Strip(Tail(s))
    ELSE IF s[Len(s)] = " " THEN Strip(SubSeq(s, 1, Len(s) - 1))
    ELSE s

\* str.lower() on the letters the prompt's answers use
LowerChar(c) ==
    CASE c = "Y" -> "y"
      [] c = "E" -> "e"
      [] c = "S" -> "s"
      [] c = "N" -> "n"
      [] c = "O" -> "o"
      [] OTHER -> c
Lower(s) == [i \in 1..Len(s) |-> LowerChar(s[i])]

\* ------------------------------------------------- utils.py: pure functions

\* time_window_to_seconds: [raised |-> ValueError?, seconds |-> result]
time_window_to_seconds(time_window) ==
    IF Len(time_window) = 0 THEN [raised |-> FALSE, seconds |-> 0]
    ELSE IF ~ ( /\ Len(time_window) >= 2
               /\ time_window[Len(time_window)] \in {"s", "m", "h", "d"}
               /\ \A i \in 1..(Len(time_window) - 1) : IsDigit(time_window[i]) )
    THEN [raised |-> TRUE, seconds |-> 0]
    ELSE LET value == ParseInt(SubSeq(time_window, 1, Len(time_window) - 1))
             unit == time_window[Len(time_window)]
         IN  [raised |-> FALSE,
              seconds |-> CASE unit = "s" -> value
                            [] unit = "m" -> value * 60
                            [] unit = "h" -> value * 3600
                            [] unit = "d" -> value * 86400]

\* query_yes_no's answer for one line of input
query_yes_no_Mut(input, default_yes) ==
    LET resp == Lower(Strip(input))
    IN  IF resp = <<>> THEN default_yes ELSE resp # <<"n">>
query_yes_no(input, default_yes) ==
    LET resp == Lower(Strip(input))
    IN  IF resp = <<>> THEN default_yes
        ELSE resp = <<"y">> \/ resp = <<"y", "e", "s">>

\* Pipeline().get_running_pipeline() against a service running `service`:
\* the id, or PipelineNotFoundError when nothing runs
get_running_pipeline(service) ==
    IF service = None THEN "PipelineNotFoundError" ELSE service

\* check_if_pipeline_exists, given what get_running_pipeline returned or
\* that it raised PipelineNotFoundError: (exists, pipeline_id)
check_result_Mut(got, config_id) ==
    IF got = "PipelineNotFoundError" THEN <<FALSE, None>> ELSE <<TRUE, got>>
check_result(got, config_id) ==
    IF got = "PipelineNotFoundError" THEN <<FALSE, None>>
    ELSE IF got = config_id THEN <<TRUE, got>>
    ELSE <<FALSE, got>>

\* branch taken on the pair check_if_pipeline_exists returned
AfterCheck(ex, pid) ==
    IF ex THEN "exists_branch"
    ELSE IF pid # None THEN "confirm"
    ELSE "create_table"

\* "if not skip_confirmation": is the user asked?
NeedsPrompt_Mut(skip) == TRUE
NeedsPrompt(skip) == ~skip

\* "if resp:" delete the running pipeline, "else:" exit(0)
AfterConfirm_Mut(r) == IF r THEN "create_table" ELSE "exit0"
AfterConfirm(r) == IF r THEN "delete" ELSE "exit0"

\* main: the statement after create_pipeline_if_not_exists returned
AfterCreatePipeline_Mut == "generate"
AfterCreatePipeline == "read_before"

\* time.sleep(time_window_seconds + 2)
SleepSeconds_Mut(time_window_seconds) == FlushSlack
SleepSeconds(time_window_seconds) == time_window_seconds + FlushSlack

\* "if added_records != expected_records: Failure else: Success"
VerdictOf_Mut(added_records, expected_records) ==
    IF added_records < expected_records THEN "Failure" ELSE "Success"
VerdictOf(added_records, expected_records) ==
    IF added_records # expected_records THEN "Failure" ELSE "Success"

\* "duplication": None
NoDuplication == [kind |-> "None"]

\* the "duplication" event option built from one topic's deduplication
\* settings (generate_events_with_duplicates 35-45, generate_events 67-77)
duplication_option(deduplication, duplication_rate) ==
    IF deduplication.enabled
    THEN [kind |-> "dict",
          enabled |-> TRUE,
          ratio |-> duplication_rate,
          key_field |-> deduplication.id_field,
          time_window |-> deduplication.time_window]
    ELSE NoDuplication

\* generate_events_with_duplicates: the option comes from source_config.topics[0]
generate_events_with_duplicates_Mut(source_topics, duplication_rate) ==
    duplication_option(source_topics[Len(source_topics)], duplication_rate)
generate_events_with_duplicates(source_topics, duplication_rate) ==
    duplication_option(source_topics[1], duplication_rate)

\* deduplication settings of one topic of the configuration
TopicDedups ==
    [enabled : BOOLEAN, id_field : {"event_id", "user_id"},
     time_window : {"1h", "12h"}]
\* --duplication-rate, in tenths (0.0, 0.1, 0.5)
Rates == {0, 1, 5}
\* config.source.topics[*].deduplication: one to MaxTopics topics
TopicLists ==
    UNION {[1..n -> TopicDedups] : n \in 1..MaxTopics}
\* default=0.1
DefaultRate == 1
\* config.source.topics[*].deduplication of the shipped demo configurations
DemoDedup(on) == [enabled |-> on, id_field |-> "event_id", time_window |-> "1h"]
DemoTopics(v) ==
    IF v = "join" THEN {<<DemoDedup(TRUE), DemoDedup(FALSE)>>}
    ELSE {<<DemoDedup(TRUE)>>, <<DemoDedup(FALSE)>>}

\* ------------------------------------------------------------------ state
VARIABLES
    dedup_topics,       \* config.source.topics[*].deduplication, in order
    duplication_rate,   \* --duplication-rate
    event_options,      \* history: "duplication" option of each generate call
    variant,            \* which demo script runs
    skip_confirmation,  \* --yes
    cleanup,            \* --cleanup
    pc,                 \* position of the script
    max_delay_time,     \* pipeline_config.sink.max_delay_time
    running,            \* GlassFlow service: id of the running pipeline or None
    table,              \* ClickHouse sink table: [exists, rows]
    topics,             \* Kafka broker: the topics that exist
    initial,            \* history: running / table / topics before the run
    exists,             \* check_if_pipeline_exists()[0]
    pipeline_id,        \* check_if_pipeline_exists()[1]
    reported,           \* history: what get_running_pipeline returned or raised
    answer,             \* the line the user typed at the prompt
    resp,               \* the confirmation
    n_records_before,
    n_records_after,
    expected_records,   \* gen_stats["total_generated"] / left_num_records
    now,                \* seconds slept so far
    genDoneAt,          \* history: now when event generation returned
    afterReadAt,        \* history: now when n_records_after was read
    runningAtCreate,    \* history: running when pipeline.create() was called
    trace,              \* history: the external calls made, in order
    verdict,            \* "none", "Success" or "Failure"
    exitStatus          \* -1 while running, else the process's exit status

inputs == <<variant, skip_confirmation, cleanup, dedup_topics, duplication_rate>>
external == <<running, table, topics>>
checked == <<exists, pipeline_id, reported>>
counts == <<n_records_before, n_records_after, expected_records, event_options>>
times == <<now, genDoneAt, afterReadAt>>
vars == <<variant, skip_confirmation, cleanup, pc, max_delay_time, running,
          table, topics, initial, exists, pipeline_id, reported, answer, resp,
          n_records_before, n_records_after, expected_records, now,
          genDoneAt, afterReadAt, runningAtCreate, trace, verdict, exitStatus,
          dedup_topics, duplication_rate, event_options>>

NoTable == [exists |-> FALSE, rows |-> 0]
Tables == {NoTable} \cup {[exists |-> TRUE, rows |-> r] : r \in 0..MaxRows}

Init ==
    /\ variant \in Variants
    /\ skip_confirmation \in BOOLEAN
    /\ cleanup \in BOOLEAN
    /\ pc = "load_conf"
    /\ max_delay_time = <<>>
    /\ running \in InitialRunning
    /\ table \in Tables
    /\ topics \in InitialTopics(variant)
    /\ initial = [running |-> running, table |-> table, topics |-> topics]
    /\ exists = FALSE
    /\ pipeline_id = None
    /\ reported = "not called"
    /\ answer = <<>>
    /\ resp = FALSE
    /\ n_records_before = 0
    /\ n_records_after = 0
    /\ expected_records = 0
    /\ now = 0
    /\ genDoneAt = 0
    /\ afterReadAt = 0
    /\ runningAtCreate = None
    /\ trace = <<>>
    /\ verdict = "none"
    /\ exitStatus = -1
    /\ dedup_topics \in DemoTopics(variant)
    /\ duplication_rate = DefaultRate
    /\ event_options = <<>>

\* an exception nobody catches: traceback, exit status 1
Raise ==
    /\ pc' = "raised"
    /\ exitStatus' = 1

\* exit(status)
Exit(status) ==
    /\ pc' = "exited"
    /\ exitStatus' = status

Called(op) == trace' = Append(trace, op)

\* ---------------------------------------------------------------- actions

\* utils.load_conf and utils.create_clickhouse_client
LoadConf ==
    /\ pc = "load_conf"
    /\ \E tw \in TimeWindows : max_delay_time' = tw
    /\ Called("load_conf")
    /\ pc' = IF variant = "join" THEN "join_sources" ELSE "check"
    /\ UNCHANGED <<inputs, external, initial, checked, answer, resp, counts,
                   times, runningAtCreate, verdict, exitStatus>>

\* demo_join.main: match pipeline_config.join.sources against the topics
JoinSourcesFound ==
    /\ pc = "join_sources"
    /\ pc' = "check"
    /\ UNCHANGED <<inputs, max_delay_time, external, initial, checked, answer,
                   resp, counts, times, runningAtCreate, trace, verdict,
                   exitStatus>>

JoinSourcesMissing ==
    /\ pc = "join_sources"
    /\ Raise
    /\ UNCHANGED <<inputs, max_delay_time, external, initial, checked, answer,
                   resp, counts, times, runningAtCreate, trace, verdict>>

\* check_if_pipeline_exists: get_running_pipeline answered (an id, or
\* PipelineNotFoundError when nothing runs)
CheckReply ==
    /\ pc = "check"
    /\ reported' = get_running_pipeline(running)
    /\ LET r == check_result(reported', ConfigId)
       IN  /\ exists' = r[1]
           /\ pipeline_id' = r[2]
           /\ pc' = AfterCheck(r[1], r[2])
    /\ Called("get_running_pipeline")
    /\ UNCHANGED <<inputs, max_delay_time, external, initial, answer, resp,
                   counts, times, runningAtCreate, verdict, exitStatus>>

\* check_if_pipeline_exists: errors.ConnectionError -> log, exit(1)
CheckConnectionError ==
    /\ pc = "check"
    /\ reported' = "ConnectionError"
    /\ trace' = trace \o <<"get_running_pipeline", "log_failure">>
    /\ Exit(1)
    /\ UNCHANGED <<inputs, max_delay_time, external, initial, exists,
                   pipeline_id, answer,
                   resp, counts, times, runningAtCreate, verdict>>

\* check_if_pipeline_exists: any other exception -> log, raise
CheckOtherError_Mut ==
    /\ pc = "check"
    /\ reported' = "Exception"
    /\ exists' = FALSE
    /\ pipeline_id' = None
    /\ pc' = AfterCheck(FALSE, None)
    /\ Called("get_running_pipeline")
    /\ UNCHANGED <<inputs, max_delay_time, external, initial, answer, resp,
                   counts, times, runningAtCreate, verdict, exitStatus>>
CheckOtherError ==
    /\ pc = "check"
    /\ reported' = "Exception"
    /\ trace' = trace \o <<"get_running_pipeline", "log_failure">>
    /\ Raise
    /\ UNCHANGED <<inputs, max_delay_time, external, initial, exists,
                   pipeline_id, answer,
                   resp, counts, times, runningAtCreate, verdict>>

\* create_pipeline_if_not_exists, "if exists:": truncate when cleanup
ExistsBranch ==
    /\ pc = "exists_branch"
    /\ IF cleanup
       THEN IF table.exists
            THEN /\ table' = [table EXCEPT !.rows = 0]
                 /\ Called("truncate_table")
                 /\ pc' = AfterCreatePipeline
                 /\ UNCHANGED exitStatus
            ELSE /\ Raise
                 /\ Called("truncate_table")
                 /\ UNCHANGED table
       ELSE /\ pc' = AfterCreatePipeline
            /\ UNCHANGED <<table, trace, exitStatus>>
    /\ UNCHANGED <<inputs, max_delay_time, running, topics, initial, checked,
                   answer, resp, counts, times, runningAtCreate, verdict>>

\* create_pipeline_if_not_exists, "if pipeline_id:": ask or assume yes
Confirm ==
    /\ pc = "confirm"
    /\ IF NeedsPrompt(skip_confirmation)
       THEN /\ \E a \in Answers :
                 /\ answer' = a
                 /\ resp' = query_yes_no(a, TRUE)
            /\ Called("query_yes_no")
       ELSE /\ resp' = TRUE
            /\ UNCHANGED <<answer, trace>>
    /\ IF AfterConfirm(resp') = "exit0"
       THEN Exit(0)
       ELSE /\ pc' = AfterConfirm(resp')
            /\ UNCHANGED exitStatus
    /\ UNCHANGED <<inputs, max_delay_time, external, initial, checked, counts,
                   times, runningAtCreate, verdict>>

\* pipeline.delete() shut the running pipeline down
DeleteOk ==
    /\ pc = "delete"
    /\ running' = None
    /\ Called("pipeline_delete")
    /\ pc' = "create_table"
    /\ UNCHANGED <<inputs, max_delay_time, table, topics, initial, checked,
                   answer, resp, counts, times, runningAtCreate, verdict,
                   exitStatus>>

\* pipeline.delete() raised: nothing catches it
DeleteError ==
    /\ pc = "delete"
    /\ Called("pipeline_delete")
    /\ Raise
    /\ UNCHANGED <<inputs, max_delay_time, external, initial, checked, answer,
                   resp, counts, times, runningAtCreate, verdict>>

\* create_table_if_not_exists
CreateTable ==
    /\ pc = "create_table"
    /\ IF table.exists
       THEN UNCHANGED <<table, trace>>
       ELSE /\ table' = [exists |-> TRUE, rows |-> 0]
            /\ Called("create_table")
    /\ pc' = "create_topics"
    /\ UNCHANGED <<inputs, max_delay_time, running, topics, initial, checked,
                   answer, resp, counts, times, runningAtCreate, verdict,
                   exitStatus>>

\* create_topics_if_not_exists: every missing topic is created, the existing
\* ones raise TopicAlreadyExistsError, which is logged
CreateTopicsOk ==
    /\ pc = "create_topics"
    /\ topics' = topics \cup ConfigTopics(variant)
    /\ Called("kafka_admin")
    /\ pc' = "create"
    /\ UNCHANGED <<inputs, max_delay_time, running, table, initial, checked,
                   answer, resp, counts, times, runningAtCreate, verdict,
                   exitStatus>>

\* create_topics_if_not_exists: create_topics fails, the error is logged only
CreateTopicsError ==
    /\ pc = "create_topics"
    /\ Called("kafka_admin")
    /\ pc' = "create"
    /\ UNCHANGED <<inputs, max_delay_time, external, initial, checked, answer,
                   resp, counts, times, runningAtCreate, verdict, exitStatus>>

\* Another client of the GlassFlow service starts its pipeline after the
\* script saw no pipeline (or deleted the one it saw) and before its own
\* create(): the case "except errors.PipelineAlreadyExistsError" handles.
OtherClientCreates ==
    /\ pc \in {"create_table", "create_topics", "create"}
    /\ running = None
    /\ running' = RacerId
    /\ UNCHANGED <<inputs, pc, max_delay_time, table, topics, initial, checked,
                   answer, resp, counts, times, runningAtCreate, trace,
                   verdict, exitStatus>>

\* pipeline.create() succeeded; time.sleep(10)
CreateOk ==
    /\ pc = "create"
    /\ running = None
    /\ running' = ConfigId
    /\ runningAtCreate' = running
    /\ Called("pipeline_create")
    /\ now' = now + PipelineStartWait
    /\ pc' = AfterCreatePipeline
    /\ UNCHANGED <<inputs, max_delay_time, table, topics, initial, checked,
                   answer, resp, counts, genDoneAt, afterReadAt, verdict,
                   exitStatus>>

\* pipeline.create() raised PipelineAlreadyExistsError: logged, then the
\* function returns the pipeline object as on success
CreateAlreadyExists ==
    /\ pc = "create"
    /\ running # None
    /\ runningAtCreate' = running
    /\ Called("pipeline_create")
    /\ pc' = AfterCreatePipeline
    /\ UNCHANGED <<inputs, max_delay_time, external, initial, checked, answer,
                   resp, counts, times, verdict, exitStatus>>

\* pipeline.create() raised anything else: logged and re-raised
CreateError ==
    /\ pc = "create"
    /\ runningAtCreate' = running
    /\ Called("pipeline_create")
    /\ Raise
    /\ UNCHANGED <<inputs, max_delay_time, external, initial, checked, answer,
                   resp, counts, times, verdict>>

\* utils.read_clickhouse_table_size before the events are generated
ReadBefore ==
    /\ pc = "read_before"
    /\ Called("read_table_size")
    /\ IF table.exists
       THEN /\ n_records_before' = table.rows
            /\ pc' = "generate"
            /\ UNCHANGED exitStatus
       ELSE /\ Raise
            /\ UNCHANGED n_records_before
    /\ UNCHANGED <<inputs, max_delay_time, external, initial, checked, answer,
                   resp, n_records_after, expected_records, event_options, times,
                   runningAtCreate, verdict>>

\* generate_events_with_duplicates: one glassgen.generate call; the number of
\* unique events it reports becomes gen_stats["total_generated"]
GenerateDedup ==
    /\ pc = "generate"
    /\ variant \in {"dedup", "gs_dedup"}
    /\ event_options' =
           Append(event_options,
                  generate_events_with_duplicates(dedup_topics, duplication_rate))
    /\ \E total_generated \in 0..MaxGen : expected_records' = total_generated
    /\ Called("generate")
    /\ genDoneAt' = now
    /\ pc' = "sleep"
    /\ UNCHANGED <<inputs, max_delay_time, external, initial, checked, answer,
                   resp, n_records_before, n_records_after, now, afterReadAt,
                   runningAtCreate, verdict, exitStatus>>

\* demo_join.main: generate_events for the right, then for the left topic
\* (dedup_topics[1] is the left source's topic, dedup_topics[2] the right
\* one), both with duplication_rate=0; left_num_records is what the verdict
\* expects
GenerateJoin ==
    /\ pc = "generate"
    /\ variant = "join"
    /\ event_options' = event_options \o
           << duplication_option(dedup_topics[2], 0),
              duplication_option(dedup_topics[1], 0) >>
    /\ \E left_num_records \in 0..MaxGen : expected_records' = left_num_records
    /\ trace' = trace \o <<"generate", "generate">>
    /\ genDoneAt' = now
    /\ pc' = "sleep"
    /\ UNCHANGED <<inputs, max_delay_time, external, initial, checked, answer,
                   resp, n_records_before, n_records_after, now, afterReadAt,
                   runningAtCreate, verdict, exitStatus>>

\* time_window_to_seconds(max_delay_time), then time.sleep(... + 2); the
\* sink flushes what the pipeline delivered while the script sleeps
Sleep ==
    /\ pc = "sleep"
    /\ LET t == time_window_to_seconds(max_delay_time)
       IN  IF t.raised
           THEN /\ Raise
                /\ UNCHANGED <<now, table, trace>>
           ELSE /\ now' = now + SleepSeconds(t.seconds)
                /\ \E flushed \in 0..MaxGen :
                       table' = [table EXCEPT !.rows = @ + flushed]
                /\ Called("sleep")
                /\ pc' = "read_after"
                /\ UNCHANGED exitStatus
    /\ UNCHANGED <<inputs, max_delay_time, running, topics, initial, checked,
                   answer, resp, counts, genDoneAt, afterReadAt,
                   runningAtCreate, verdict>>

\* utils.read_clickhouse_table_size after the wait
ReadAfter ==
    /\ pc = "read_after"
    /\ Called("read_table_size")
    /\ n_records_after' = table.rows
    /\ afterReadAt' = now
    /\ pc' = "print_rows"
    /\ UNCHANGED <<inputs, max_delay_time, external, initial, checked, answer,
                   resp, n_records_before, expected_records, event_options, now,
                   genDoneAt,
                   runningAtCreate, verdict, exitStatus>>

\* demo_deduplication.main: get_clickhouse_table_row; "if row:" print it
PrintRowDedup ==
    /\ pc = "print_rows"
    /\ variant = "dedup"
    /\ IF table.rows > 0
       THEN Called("print_table")
       ELSE UNCHANGED trace
    /\ pc' = "verdict"
    /\ UNCHANGED <<inputs, max_delay_time, external, initial, checked, answer,
                   resp, counts, times, runningAtCreate, verdict, exitStatus>>

\* demo_join.main calls utils.get_clickhouse_table_rows, which demos/utils.py
\* does not define (it defines get_clickhouse_table_row): AttributeError
PrintRowsJoin ==
    /\ pc = "print_rows"
    /\ variant = "join"
    /\ Raise
    /\ UNCHANGED <<inputs, max_delay_time, external, initial, checked, answer,
                   resp, counts, times, runningAtCreate, trace, verdict>>

\* getting-started main: get_clickhouse_table_rows of its own utils module,
\* then print_clickhouse_record
PrintRowsGettingStarted ==
    /\ pc = "print_rows"
    /\ variant = "gs_dedup"
    /\ Called("print_table")
    /\ pc' = "verdict"
    /\ UNCHANGED <<inputs, max_delay_time, external, initial, checked, answer,
                   resp, counts, times, runningAtCreate, verdict, exitStatus>>

\* demo_deduplication.main: log the verdict and return
VerdictDedup ==
    /\ pc = "verdict"
    /\ variant = "dedup"
    /\ verdict' = VerdictOf(n_records_after - n_records_before, expected_records)
    /\ Called(verdict')
    /\ pc' = "done"
    /\ exitStatus' = 0
    /\ UNCHANGED <<inputs, max_delay_time, external, initial, checked, answer,
                   resp, counts, times, runningAtCreate>>

\* getting-started and join main: log the verdict, exit(1) or exit(0)
VerdictExit ==
    /\ pc = "verdict"
    /\ variant \in {"gs_dedup", "join"}
    /\ verdict' = VerdictOf(n_records_after - n_records_before, expected_records)
    /\ Called(verdict')
    /\ Exit(IF verdict' = "Failure" THEN 1 ELSE 0)
    /\ UNCHANGED <<inputs, max_delay_time, external, initial, checked, answer,
                   resp, counts, times, runningAtCreate>>

Next ==
    \/ LoadConf
    \/ JoinSourcesFound
    \/ JoinSourcesMissing
    \/ CheckReply
    \/ CheckConnectionError
    \/ CheckOtherError
    \/ ExistsBranch
    \/ Confirm
    \/ DeleteOk
    \/ DeleteError
    \/ CreateTable
    \/ CreateTopicsOk
    \/ CreateTopicsError
    \/ OtherClientCreates
    \/ CreateOk
    \/ CreateAlreadyExists
    \/ CreateError
    \/ ReadBefore
    \/ GenerateDedup
    \/ GenerateJoin
    \/ Sleep
    \/ ReadAfter
    \/ PrintRowDedup
    \/ PrintRowsJoin
    \/ PrintRowsGettingStarted
    \/ VerdictDedup
    \/ VerdictExit

Spec == Init /\ [][Next]_vars

\* ------------------------------------------------- reading the call history
Positions(ops) == {i \in 1..Len(trace) : trace[i] \in ops}
Count(op) == Cardinality(Positions({op}))
Has(op) == Count(op) > 0
\* every call of as comes before every call of bs
AllBefore(as, bs) == \A i \in Positions(as), j \in Positions(bs) : i < j
PipelineOps == {"get_running_pipeline", "pipeline_delete", "pipeline_create"}
Terminated == pc \in {"done", "exited", "raised"}
\* create_pipeline_if_not_exists has just returned to main
Returned == pc = AfterCreatePipeline
\* the run reached its verdict
Completed == verdict # "none"
added_records == n_records_after - n_records_before

\* ------------------------------------------------------------------ claims

\* C1 (as claimed): whenever create_pipeline_if_not_exists returns normally,
\* the pipeline running in the GlassFlow service is config.pipeline_id.
C1_ReturnImpliesConfiguredRunning ==
    Returned => running = ConfigId

\* C2: the deduplication demos log "Success" exactly when the row count read
\* after the wait minus the one read before generation equals
\* gen_stats["total_generated"], "Failure" otherwise, and a run that reaches
\* its verdict logs exactly one of the two.
C2_VerdictMatchesDifference ==
    variant \in {"dedup", "gs_dedup"} =>
        /\ Count("Success") + Count("Failure") <= 1
        /\ (pc = "verdict" \/ ~Has("generate")) => Count("Success") + Count("Failure") = 0
        /\ Completed =>
            /\ Count("Success") + Count("Failure") = 1
            /\ Has("Success") <=> added_records = expected_records
            /\ Has("Failure") <=> added_records # expected_records
            /\ n_records_after = table.rows
            /\ verdict = trace[Len(trace)]

C2_Witness ==
    /\ variant = "dedup"
    /\ pc = "done"
    /\ Has("Success")
    /\ expected_records > 0
    /\ n_records_before > 0

\* C3 (as claimed): the join demo and the getting-started deduplication demo
\* end with exit status 0 exactly when the rows added equal the expected
\* number and with status 1 when they differ, and every run that has read
\* the row count after generation reaches one of these two exits.
C3_ExitStatusMatchesVerdict ==
    (variant \in {"join", "gs_dedup"} /\ Terminated /\ Count("read_table_size") = 2) =>
        /\ pc = "exited"
        /\ Completed
        /\ exitStatus = 0 <=> added_records = expected_records
        /\ exitStatus = 1 <=> added_records # expected_records

\* C4 (as claimed): with cleanup=True the sink table is truncated before the
\* pipeline is created and before any event is generated, in every branch
\* (stated for a sink table that held rows before the run: a table the run
\* creates itself is empty anyway).
C4_CleanupTruncatesFirst ==
    (cleanup /\ initial.table.rows > 0
             /\ (Has("pipeline_create") \/ Has("generate"))) =>
        /\ Has("truncate_table")
        /\ AllBefore({"truncate_table"}, {"pipeline_create", "generate"})

\* C5: with skip_confirmation the user is never prompted, and a running
\* pipeline with another id is deleted as if the user had answered yes.
C5_SkipNeverPromptsAndDeletes ==
    skip_confirmation =>
        /\ ~Has("query_yes_no")
        /\ answer = <<>>
        /\ (reported \in {OtherId} /\ pc # "confirm") =>
            /\ resp
            /\ pc = "delete" \/ Count("pipeline_delete") = 1
            /\ (Has("pipeline_delete") /\ pc # "raised") => initial.running # running

C5_Witness ==
    /\ skip_confirmation
    /\ reported = OtherId
    /\ Has("pipeline_delete")
    /\ Returned
    /\ running = ConfigId

UserDeclined ==
    /\ Has("query_yes_no")
    /\ Lower(Strip(answer)) \in {<<"n">>, <<"n", "o">>}

C7_DeclineChangesNothing ==
    UserDeclined =>
        /\ pc = "exited"
        /\ exitStatus = 0
        /\ running = initial.running
        /\ table = initial.table
        /\ topics = initial.topics
        /\ Positions({"pipeline_delete", "pipeline_create", "create_table",
                      "truncate_table", "kafka_admin", "generate"}) = {}

C7_Witness ==
    /\ answer = <<"N", "O">>
    /\ pc = "exited"
    /\ exitStatus = 0
    /\ running = OtherId
    /\ table.rows > 0

ReadsAfterGeneration ==
    {i \in Positions({"read_table_size"}) : \E g \in Positions({"generate"}) : g < i}

C9_WaitBeforeSingleRead ==
    /\ Cardinality(ReadsAfterGeneration) <= 1
    /\ (Has("generate") /\ pc \in {"sleep", "read_after"}) => ReadsAfterGeneration = {}
    /\ (pc \in {"print_rows", "verdict"} \/ Completed) => Cardinality(ReadsAfterGeneration) = 1
    /\ ReadsAfterGeneration # {} =>
        /\ ~time_window_to_seconds(max_delay_time).raised
        /\ afterReadAt - genDoneAt >= time_window_to_seconds(max_delay_time).seconds
        /\ \E w \in Positions({"sleep"}) : \A i \in ReadsAfterGeneration : w < i

C9_Witness ==
    /\ Completed
    /\ max_delay_time = <<"1", "h">>
    /\ afterReadAt - genDoneAt = 3602

\* C10: check_if_pipeline_exists returns (True, id) exactly when the service
\* reports a pipeline whose id is config.pipeline_id, (False, id) for any
\* other reported id, and (False, None) exactly when the service raises
\* PipelineNotFoundError; the first component is True only if the second is
\* config.pipeline_id.
CheckReturned == reported \notin {"not called", "ConnectionError", "Exception"}

C10_CheckResult ==
    /\ CheckReturned =>
        /\ reported = get_running_pipeline(initial.running)
        /\ (exists /\ pipeline_id = reported) <=> reported = ConfigId
        /\ reported \in {OtherId, RacerId} => (~exists /\ pipeline_id = reported)
        /\ (~exists /\ pipeline_id = None) <=> reported = "PipelineNotFoundError"
        /\ exists => pipeline_id = ConfigId
    /\ ~CheckReturned => (~exists /\ pipeline_id = None)

C10_Witness ==
    /\ reported = OtherId
    /\ ~exists
    /\ pipeline_id = OtherId
    /\ pc = "confirm"

\* C11: when get_running_pipeline raises ConnectionError the script ends with
\* exit status 1 before any table, topic or pipeline is created, deleted or
\* truncated and before any event is generated; any other unexpected
\* exception from the check is logged and re-raised, never treated as "no
\* pipeline running".
ChangingOps ==
    {"pipeline_delete", "pipeline_create", "create_table", "truncate_table",
     "kafka_admin", "generate"}

C11_CheckFailureStopsRun ==
    /\ reported = "ConnectionError" =>
        /\ pc = "exited"
        /\ exitStatus = 1
        /\ Positions(ChangingOps) = {}
        /\ running = initial.running
        /\ table = initial.table
        /\ topics = initial.topics
        /\ trace[Len(trace)] = "log_failure"
    /\ reported = "Exception" =>
        /\ pc = "raised"
        /\ exitStatus = 1
        /\ trace[Len(trace)] = "log_failure"
        /\ Positions(ChangingOps) = {}
        /\ running = initial.running
        /\ table = initial.table
        /\ topics = initial.topics

C11_Witness ==
    /\ reported = "ConnectionError"
    /\ pc = "exited"
    /\ exitStatus = 1
    /\ cleanup
    /\ table.rows > 0
    /\ trace = <<"load_conf", "get_running_pipeline", "log_failure">>

\* ------------------------------------- the generator call, checked alone
\* The script stands before event generation (configured pipeline found
\* running, row count read) with any deduplication settings and any rate.
GenInit ==
    /\ variant \in Variants
    /\ dedup_topics \in TopicLists
    /\ variant = "join" => Len(dedup_topics) >= 2
    /\ duplication_rate \in Rates
    /\ event_options = <<>>
    /\ skip_confirmation \in BOOLEAN
    /\ cleanup = FALSE
    /\ pc = "generate"
    /\ max_delay_time = <<>>
    /\ running = ConfigId
    /\ table = [exists |-> TRUE, rows |-> 0]
    /\ topics = ConfigTopics(variant)
    /\ initial = [running |-> running, table |-> table, topics |-> topics]
    /\ exists = TRUE
    /\ pipeline_id = ConfigId
    /\ reported = ConfigId
    /\ answer = <<>>
    /\ resp = FALSE
    /\ n_records_before = 0
    /\ n_records_after = 0
    /\ expected_records = 0
    /\ now = 0
    /\ genDoneAt = 0
    /\ afterReadAt = 0
    /\ runningAtCreate = None
    /\ trace = <<"load_conf", "get_running_pipeline", "read_table_size">>
    /\ verdict = "none"
    /\ exitStatus = -1

GenNext ==
    \/ GenerateDedup
    \/ GenerateJoin

GenSpec == GenInit /\ [][GenNext]_vars

\* C12: generate_events_with_duplicates asks the generator to inject
\* duplicates exactly when deduplication is enabled on the first configured
\* topic; then the option is enabled with ratio duplication_rate and the key
\* field and time window of that topic's deduplication settings; otherwise
\* the option is None, whatever duplication_rate is.
C12_DuplicationOption ==
    (variant \in {"dedup", "gs_dedup"} /\ Has("generate")) =>
        /\ Len(event_options) = 1
        /\ LET first == dedup_topics[1]
               option == event_options[1]
           IN  /\ option.kind = "dict" <=> first.enabled
               /\ option.kind = "None" <=> ~first.enabled
               /\ first.enabled =>
                    /\ option.enabled
                    /\ option.ratio = duplication_rate
                    /\ option.key_field = first.id_field
                    /\ option.time_window = first.time_window
               /\ ~first.enabled => option = NoDuplication

C12_Witness ==
    /\ variant = "dedup"
    /\ Has("generate")
    /\ Len(dedup_topics) = 2
    /\ dedup_topics[1].enabled
    /\ ~dedup_topics[2].enabled
    /\ dedup_topics[1].id_field # dedup_topics[2].id_field
    /\ duplication_rate = 5
    /\ event_options[1].ratio = 5
    /\ event_options[1].key_field = dedup_topics[1].id_field
====
